---- MODULE Spec2Model ----
(***************************************************************************)
(* gits: a bulk git wrapper.  The model follows src/src/main.rs: the       *)
(* repository predicate, the ancestor and descendant locators, target      *)
(* resolution in main, and the sequential execution loop.                  *)
(*                                                                         *)
(* A path (PathBuf) is the sequence of its components.  The component "/"  *)
(* is the root directory, "." the current directory, ".." the parent; any  *)
(* other string is a normal component.                                     *)
(***************************************************************************)
EXTENDS Integers, Sequences, FiniteSets, TLC

\* ------------------------------------------------------------------ bounds

\* --max-depth takes the values 0..MaxDepthArg, or is omitted.
MaxDepthArg == 2

\* A child that exits by itself reports a code in 0..MaxCode.
MaxCode == 3

\* ------------------------------------------------------ the file system

Slash == <<"/">>
W == <<"/", "w">>
A == <<"/", "w", "a">>
V == <<"/", "w", "a", "v">>
B == <<"/", "w", "b">>
C == <<"/", "w", "b", "c">>

\* The ordinary directories of the file system.
AllDirs == {Slash, W, A, V, B, C}

\* Directories that also hold a regular file named "f".
HasFile == {W, B}

\* What a directory holds under the name ".git":
\*   none    nothing
\*   dir     a directory
\*   file    a regular file (linked worktree, submodule)
\*   link    a symbolic link
\*   hidden  a directory whose own metadata cannot be read
MarkerKinds == {"none", "dir", "file", "link", "hidden"}

\* The markings of a discovery run: every kind at the inner directories, the
\* plain kinds at the leaves.
LeafKinds == {"none", "dir", "file"}
Leaves == {V, C}

\* Option<T>
None == [some |-> FALSE, val |-> 0]
Some(x) == [some |-> TRUE, val |-> x]
NoPath == [some |-> FALSE, val |-> <<>>]

NoFault == [kind |-> "none", at |-> <<>>]

VARIABLES
  marker,          \* file system: AllDirs -> MarkerKinds
  fault,           \* file system: the one I/O fault of this run, [kind, at]
  cwd,             \* env::current_dir()
  cli,             \* the parsed command line (struct Cli)
  pc,              \* position of main
  root,            \* main: root
  stack,           \* discover_children: the frames of walk
  out,             \* discover_children: repos (walk's out)
  repos,           \* main: repos
  print_headings,  \* main: print_headings
  idx,             \* main: index of the loop over repos
  last_code,       \* main: last_code
  exit_code,       \* the status the process ended with
  trace,           \* what was printed and what happened to child processes
  tested,          \* the directories walk applied the predicate to
  ioerrs           \* the I/O errors the traversal met

vars == <<marker, fault, cwd, cli, pc, root, stack, out, repos, print_headings,
          idx, last_code, exit_code, trace, tested, ioerrs>>

envVars == <<marker, fault, cwd, cli>>
execVars == <<print_headings, idx, last_code, exit_code, trace>>

\* ------------------------------------------------------------------ paths

Last(p) == p[Len(p)]

IsAbsolute(p) == Len(p) > 0 /\ p[1] = "/"

\* Path::join with a single normal component
Join(p, name) == Append(p, name)

\* PathBuf::pop: the path without its last component
Parent(p) == SubSeq(p, 1, Len(p) - 1)

\* PathBuf::pop returns false when the path has no parent
HasParent(p) == Len(p) > 1

\* The directory a path names: relative paths start at cwd, "." stays and ".."
\* climbs (the root directory is its own parent).
RECURSIVE Walked(_, _)
Walked(at, p) ==
  IF p = <<>> THEN at
  ELSE LET c == Head(p) IN
       Walked(IF c = "." THEN at
              ELSE IF c = ".." THEN (IF Len(at) > 1 THEN Parent(at) ELSE at)
              ELSE Append(at, c),
              Tail(p))

Denote(p) == IF IsAbsolute(p) THEN Walked(Slash, Tail(p)) ELSE Walked(cwd, p)

\* Component's derived order: RootDir < CurDir < ParentDir < Normal, normal
\* components by their bytes.
Rank(c) ==
  CASE c = "/" -> 0
    [] c = "." -> 1
    [] c = ".." -> 2
    [] c = ".git" -> 3
    [] c = "a" -> 4
    [] c = "b" -> 5
    [] c = "c" -> 6
    [] c = "f" -> 7
    [] c = "m" -> 8
    [] c = "v" -> 9
    [] c = "w" -> 10

\* Path's Ord: lexicographic over the components
RECURSIVE PathLess(_, _)
PathLess(p, q) ==
  IF q = <<>> THEN FALSE
  ELSE IF p = <<>> THEN TRUE
  ELSE IF Head(p) = Head(q) THEN PathLess(Tail(p), Tail(q))
  ELSE Rank(Head(p)) < Rank(Head(q))

RECURSIVE Insert(_, _)
Insert(s, p) ==
  IF s = <<>> THEN <<p>>
  ELSE IF PathLess(p, Head(s)) THEN <<p>> \o s
  ELSE <<Head(s)>> \o Insert(Tail(s), p)

\* Vec::sort
RECURSIVE Sort(_)
Sort(s) == IF s = <<>> THEN <<>> ELSE Insert(Sort(SubSeq(s, 1, Len(s) - 1)), Last(s))

\* Vec::dedup: removes consecutive repeated elements
RECURSIVE Dedup(_)
Dedup(s) ==
  IF Len(s) <= 1 THEN s
  ELSE IF s[1] = s[2] THEN Dedup(Tail(s))
  ELSE <<s[1]>> \o Dedup(Tail(s))

Range(s) == {s[i] : i \in 1..Len(s)}

\* ------------------------------------------------- file system, as read

\* d/.git is a directory
GitDirAt(d) == d \in AllDirs /\ marker[d] \in {"dir", "hidden"}

\* q is a directory of the file system
IsDirectory(q) ==
  \/ q \in AllDirs
  \/ Len(q) > 1 /\ Last(q) = ".git" /\ GitDirAt(Parent(q))
  \/ Len(q) > 2 /\ Last(q) = "m" /\ Last(Parent(q)) = ".git"
       /\ GitDirAt(Parent(Parent(q)))

\* fs::symlink_metadata(q/.git): "dir", "file", "link", or "err"
GitMetadata(q) ==
  IF q \in AllDirs
    THEN (IF marker[q] \in {"none", "hidden"} THEN "err" ELSE marker[q])
  ELSE IF IsDirectory(q) /\ Last(q) = "m" THEN "file"
  ELSE "err"

is_git_repo_dir(dir) == GitMetadata(Denote(dir)) \in {"dir", "file"}

\* The entries of directory q: [name, isdir]
Entries(q) ==
  IF q \in AllDirs THEN
    {[name |-> Last(d), isdir |-> TRUE] : d \in {e \in AllDirs : Len(e) > 1 /\ Parent(e) = q}}
    \cup (IF marker[q] \in {"dir", "hidden"} THEN {[name |-> ".git", isdir |-> TRUE]} ELSE {})
    \cup (IF marker[q] \in {"file", "link"} THEN {[name |-> ".git", isdir |-> FALSE]} ELSE {})
    \cup (IF q \in HasFile THEN {[name |-> "f", isdir |-> FALSE]} ELSE {})
  ELSE IF Last(q) = ".git" THEN {[name |-> "m", isdir |-> TRUE]}
  ELSE {[name |-> ".git", isdir |-> FALSE]}

\* fs::read_dir(dir): "ok", "perm" (permission denied) or "io" (any other error)
OpenResult(dir) ==
  LET q == Denote(dir) IN
  IF ~IsDirectory(q) THEN "io"
  ELSE IF fault.at = q /\ fault.kind \in {"perm", "io"} THEN fault.kind
  ELSE "ok"

\* Every order in which read_dir may yield the entries of a directory
Orders(S) ==
  {f \in [1..Cardinality(S) -> S] : \A i, j \in 1..Cardinality(S) : f[i] = f[j] => i = j}

\* the entry is yielded as Err, or its file_type() is Err
EntryFails(q, e) == fault.at = Join(q, e.name) /\ fault.kind \in {"entry", "ftype"}

\* lines 122-135: the directories among the entries, in the order yielded
RECURSIVE CollectDirs(_, _, _)
CollectDirs(dir, q, ord) ==
  IF ord = <<>> THEN <<>>
  ELSE LET e == Head(ord) IN
       (IF ~EntryFails(q, e) /\ e.isdir THEN <<Join(dir, e.name)>> ELSE <<>>)
       \o CollectDirs(dir, q, Tail(ord))

\* ---------------------------------------------------- discover_children

MaxDepths == {None} \cup {Some(n) : n \in 0..MaxDepthArg}

Frame(dir, depth) == [dir |-> dir, depth |-> depth, at |-> "test", dirs |-> <<>>]

Top == stack[Len(stack)]
Pop(stk) == SubSeq(stk, 1, Len(stk) - 1)
SetTop(stk, f) == [stk EXCEPT ![Len(stk)] = f]

\* line 102: a repository is recorded and walk returns
AfterRecordDescend(stk) == SetTop(stk, [stk[Len(stk)] EXCEPT !.at = "scan"])

AfterRecord(stk) == Pop(stk)

\* lines 105-109: the depth budget is used up
DepthExhaustedAfter(depth) == cli.max_depth.some /\ depth > cli.max_depth.val

DepthExhausted(depth) == cli.max_depth.some /\ depth >= cli.max_depth.val

\* lines 139-141: a directory literally named .git is not descended into
SkipGitNever(sub) == FALSE

SkipGit(sub) == Last(sub) = ".git"

\* lines 100-103: walk tests the directory
WalkTest ==
  /\ pc = "walk" /\ stack # <<>> /\ Top.at = "test"
  /\ tested' = tested \cup {Top.dir}
  /\ IF is_git_repo_dir(Top.dir)
       THEN /\ out' = Append(out, Top.dir)
            /\ stack' = AfterRecord(stack)
       ELSE /\ out' = out
            /\ stack' = SetTop(stack, [Top EXCEPT !.at = "scan"])
  /\ UNCHANGED <<envVars, pc, root, repos, execVars, ioerrs>>

\* lines 105-136: the depth check, read_dir, and the sorted list of subdirectories
WalkScan ==
  /\ pc = "walk" /\ stack # <<>> /\ Top.at = "scan"
  /\ IF DepthExhausted(Top.depth)
       THEN /\ stack' = Pop(stack)
            /\ UNCHANGED <<pc, ioerrs>>
       ELSE LET res == OpenResult(Top.dir) IN
            CASE res = "perm" ->
                   /\ stack' = Pop(stack)
                   /\ ioerrs' = ioerrs \cup {[kind |-> "perm", at |-> Denote(Top.dir)]}
                   /\ pc' = pc
              [] res = "io" ->
                   /\ stack' = <<>>
                   /\ ioerrs' = ioerrs \cup {[kind |-> "io", at |-> Denote(Top.dir)]}
                   /\ pc' = "failed"
              [] res = "ok" ->
                   LET q == Denote(Top.dir) IN
                   \E ord \in Orders(Entries(q)) :
                     /\ stack' = SetTop(stack, [Top EXCEPT !.at = "loop",
                                         !.dirs = Sort(CollectDirs(Top.dir, q, ord))])
                     /\ ioerrs' = ioerrs \cup
                          {[kind |-> fault.kind, at |-> fault.at] : e \in
                             {x \in Entries(q) : EntryFails(q, x)}}
                     /\ pc' = pc
  /\ UNCHANGED <<envVars, root, out, repos, execVars, tested>>

\* lines 137-144: the loop over the sorted subdirectories
WalkLoop ==
  /\ pc = "walk" /\ stack # <<>> /\ Top.at = "loop"
  /\ IF Top.dirs = <<>>
       THEN stack' = Pop(stack)
       ELSE LET sub == Head(Top.dirs)
                rest == SetTop(stack, [Top EXCEPT !.dirs = Tail(Top.dirs)])
            IN  IF SkipGit(sub)
                  THEN stack' = rest
                  ELSE stack' = Append(rest, Frame(sub, Top.depth + 1))
  /\ UNCHANGED <<envVars, pc, root, out, repos, execVars, tested, ioerrs>>

\* lines 147-150: walk has returned Ok; the result is sorted and returned
WalkReturn ==
  /\ pc = "walk" /\ stack = <<>>
  /\ out' = Sort(out)
  /\ pc' = "returned"
  /\ UNCHANGED <<envVars, root, stack, repos, execVars, tested, ioerrs>>

\* The command line when no flag is given
DefaultCli ==
  [root |-> NoPath, absolute_path |-> FALSE, parent |-> FALSE, max_depth |-> None,
   list |-> FALSE, heading_style |-> "rule", no_heading |-> FALSE, git_args |-> <<>>]

\* The faults of a discovery run
DiscoverFaults ==
  {NoFault, [kind |-> "perm", at |-> B], [kind |-> "io", at |-> B],
   [kind |-> "entry", at |-> A]}

\* discover_children(W, max_depth) on every marking of the tree below W
InitDiscover ==
  /\ marker \in {m \in [AllDirs -> MarkerKinds] :
                   m[Slash] = "none" /\ \A d \in Leaves : m[d] \in LeafKinds}
  /\ fault \in DiscoverFaults
  /\ cwd = W
  /\ \E md \in MaxDepths : cli = [DefaultCli EXCEPT !.max_depth = md]
  /\ pc = "walk"
  /\ root = W
  /\ stack = <<Frame(W, 0)>>
  /\ out = <<>>
  /\ repos = <<>>
  /\ print_headings = FALSE
  /\ idx = 0
  /\ last_code = 0
  /\ exit_code = None
  /\ trace = <<>>
  /\ tested = {}
  /\ ioerrs = {}

NextDiscover == WalkTest \/ WalkScan \/ WalkLoop \/ WalkReturn

SpecDiscover == InitDiscover /\ [][NextDiscover]_vars

\* --------------------------------------------------------------- main

\* lines 79-90: the repositories from dir up to the root directory, nearest first
RECURSIVE ancestors_with_git_below_root(_)
ancestors_with_git_below_root(dir) ==
  IF ~HasParent(dir) THEN <<>>
  ELSE (IF is_git_repo_dir(dir) THEN <<dir>> ELSE <<>>)
       \o ancestors_with_git_below_root(Parent(dir))

RECURSIVE ancestors_with_git(_)
ancestors_with_git(dir) ==
  (IF is_git_repo_dir(dir) THEN <<dir>> ELSE <<>>)
  \o (IF HasParent(dir) THEN ancestors_with_git(Parent(dir)) ELSE <<>>)

\* lines 224-237 and 242-245: the targets when the root is a repository
RootTargets ==
  LET r == IF cli.root.some THEN cli.root.val ELSE cwd
      v == IF cli.parent
             THEN Dedup((IF is_git_repo_dir(r) THEN <<r>> ELSE <<>>) \o ancestors_with_git(cwd))
             ELSE <<r>>
  IN  Dedup(Sort(v))

\* lines 219-240: the root is resolved and the strategy chosen
Start ==
  /\ pc = "start"
  /\ LET r == IF cli.root.some THEN cli.root.val ELSE cwd IN
     /\ root' = r
     /\ IF is_git_repo_dir(r)
          THEN /\ repos' = RootTargets
               /\ pc' = "resolved"
               /\ stack' = stack
          ELSE /\ repos' = repos
               /\ pc' = "walk"
               /\ stack' = <<Frame(r, 0)>>
  /\ UNCHANGED <<envVars, out, execVars, tested, ioerrs>>

\* lines 239-245: discover_children returned Ok; main sorts and dedups
Collect ==
  /\ pc = "returned"
  /\ repos' = Dedup(Sort(out))
  /\ pc' = "resolved"
  /\ UNCHANGED <<envVars, root, stack, out, execVars, tested, ioerrs>>

\* line 216: the status of a process whose main returns Err
ErrStatusLast(last) == last

ErrStatus(last) == 1

\* line 239: discover_children returned Err and main returns it
DiscoverError ==
  /\ pc = "failed"
  /\ exit_code' = Some(ErrStatus(last_code))
  /\ pc' = "exit"
  /\ UNCHANGED <<envVars, root, stack, out, repos, print_headings, idx, last_code,
                 trace, tested, ioerrs>>

\* pathdiff::diff_paths(path, base), on component sequences
RECURSIVE DiffFrom(_, _, _)
DiffFrom(p, b, comps) ==
  IF p = <<>> /\ b = <<>> THEN Some(comps)
  ELSE IF b = <<>> THEN Some(comps \o p)
  ELSE IF p = <<>> THEN DiffFrom(p, Tail(b), Append(comps, ".."))
  ELSE IF comps = <<>> /\ Head(p) = Head(b) THEN DiffFrom(Tail(p), Tail(b), comps)
  ELSE IF Head(b) = "." THEN DiffFrom(Tail(p), Tail(b), Append(comps, Head(p)))
  ELSE IF Head(b) = ".." THEN NoPath
  ELSE Some(comps \o [i \in 1..Len(b) |-> ".."] \o p)

diff_paths(path, base) ==
  IF IsAbsolute(path) # IsAbsolute(base)
    THEN (IF IsAbsolute(path) THEN Some(path) ELSE NoPath)
    ELSE DiffFrom(path, base, <<>>)

\* lines 153-171: the label of a target; the last element is the trailing "/"
heading_for(path, root_for_rel, absolute) ==
  IF absolute THEN Append(Denote(path), "/")
  ELSE LET rel == diff_paths(path, root_for_rel) IN
       IF rel.some
         THEN (IF rel.val = <<>> THEN <<".", "/">> ELSE Append(rel.val, "/"))
         ELSE Append(path, "/")

\* What is printed and what happens to the children, in order
Event(ev, repo, text, code) == [ev |-> ev, repo |-> repo, text |-> text, code |-> code]
Printed(ev, repo) ==
  Event(ev, repo, heading_for(repo, root, cli.absolute_path), None)
Started(repo, args) == Event("start", repo, args, None)
Exited(repo, status) == Event("exit", repo, <<>>, status)
SpawnFailed(repo) == Event("spawn_failed", repo, <<>>, None)
Rule == Event("rule", <<>>, <<>>, None)

\* lines 248-252
GitArgs == IF cli.git_args = <<>> THEN <<"status">> ELSE cli.git_args

\* lines 254-260: --list prints every label and returns Ok
ListLabelsUnlessSilenced ==
  IF cli.no_heading THEN <<>> ELSE [i \in 1..Len(repos) |-> Printed("label", repos[i])]

ListLabels == [i \in 1..Len(repos) |-> Printed("label", repos[i])]

\* lines 263-267
PrintHeadings ==
  IF cli.no_heading THEN FALSE
  ELSE Len(repos) > 1 \/ cli.parent \/ cli.absolute_path \/ cli.root.some

\* lines 254-281: list mode, or the setup of the loop
Dispatch ==
  /\ pc = "resolved"
  /\ IF cli.list
       THEN /\ trace' = trace \o ListLabels
            /\ exit_code' = Some(0)
            /\ pc' = "exit"
            /\ UNCHANGED <<print_headings, idx, last_code>>
       ELSE /\ print_headings' = PrintHeadings
            /\ last_code' = 0
            /\ idx' = 0
            /\ pc' = "loop"
            /\ UNCHANGED <<trace, exit_code>>
  /\ UNCHANGED <<envVars, root, stack, out, repos, tested, ioerrs>>

\* lines 181-191: both styles print the label
print_heading(repo) == <<Printed("heading", repo)>>

\* lines 193-203: only the rule style prints the rule
print_fence(style) == IF style # "rule" THEN <<>> ELSE <<Rule>>

\* lines 283-287: the heading, then the child is spawned; a spawn error ends main
LoopStart ==
  /\ pc = "loop" /\ idx < Len(repos)
  /\ LET repo == repos[idx + 1]
         head == IF print_headings THEN print_heading(repo) ELSE <<>>
     IN  \/ /\ trace' = trace \o head \o <<Started(repo, GitArgs)>>
            /\ pc' = "running"
            /\ exit_code' = exit_code
         \/ /\ trace' = trace \o head \o <<SpawnFailed(repo)>>
            /\ pc' = "exit"
            /\ exit_code' = Some(ErrStatus(last_code))
  /\ UNCHANGED <<envVars, root, stack, out, repos, print_headings, idx, last_code,
                 tested, ioerrs>>

\* What a child may end with: a code, or no code (killed by a signal)
Statuses == {None} \cup {Some(n) : n \in 0..MaxCode}

\* line 213: status.code().unwrap_or(1)
ExitCodeOf(status) == IF status.some THEN status.val ELSE 1

\* line 288: last_code = code
RecordCodeSticky(last, code) == IF code # 0 THEN code ELSE last

RecordCode(last, code) == code

\* line 292: the loop goes on to the next target whatever the code
AfterChildStopOnFailure(code) == IF code # 0 THEN Len(repos) ELSE idx + 1

AfterChild(code) == idx + 1

\* lines 212-213 and 288-292: the child ends; its code is recorded, the rule printed
ChildExit ==
  /\ pc = "running"
  /\ \E status \in Statuses :
       LET code == ExitCodeOf(status) IN
       /\ last_code' = RecordCode(last_code, code)
       /\ trace' = trace \o <<Exited(repos[idx + 1], status)>>
                     \o (IF print_headings THEN print_fence(cli.heading_style) ELSE <<>>)
       /\ idx' = AfterChild(code)
  /\ pc' = "loop"
  /\ UNCHANGED <<envVars, root, stack, out, repos, print_headings, exit_code,
                 tested, ioerrs>>

\* lines 294-298: the status of the process after the loop
FinalStatus(last) == IF last # 0 THEN last ELSE 0

LoopEnd ==
  /\ pc = "loop" /\ idx >= Len(repos)
  /\ exit_code' = Some(FinalStatus(last_code))
  /\ pc' = "exit"
  /\ UNCHANGED <<envVars, root, stack, out, repos, print_headings, idx, last_code,
                 trace, tested, ioerrs>>

\* The state of main before its first statement
InitProgram ==
  /\ pc = "start"
  /\ root = <<>>
  /\ stack = <<>>
  /\ out = <<>>
  /\ repos = <<>>
  /\ print_headings = FALSE
  /\ idx = 0
  /\ last_code = 0
  /\ exit_code = None
  /\ trace = <<>>
  /\ tested = {}
  /\ ioerrs = {}

Marking(S, kind) == [d \in AllDirs |-> IF d \in S THEN kind ELSE "none"]

\* Target resolution: every marking with plain repositories, every working
\* directory, roots spelled absolutely and relatively, no I/O fault.
ResolveRoots ==
  {NoPath, Some(<<".">>), Some(<<"..">>), Some(<<"a">>)} \cup {Some(d) : d \in AllDirs}

InitResolve ==
  /\ marker \in {Marking(S, "dir") : S \in SUBSET AllDirs}
  /\ fault = NoFault
  /\ cwd \in AllDirs
  /\ \E r \in ResolveRoots, par \in BOOLEAN, md \in MaxDepths :
       cli = [DefaultCli EXCEPT !.root = r, !.parent = par, !.max_depth = md]
  /\ InitProgram

NextResolve ==
  Start \/ WalkTest \/ WalkScan \/ WalkLoop \/ WalkReturn \/ Collect

SpecResolve == InitResolve /\ [][NextResolve]_vars

\* The whole program: the workspace of the specification's scenarios (W with
\* repositories among W, W/a and W/b/c), run from W or from W/a, with every
\* flag that the execution reads and one fault at W/b.
MainFaults ==
  {NoFault} \cup {[kind |-> k, at |-> B] : k \in {"perm", "io", "entry", "ftype"}}

Init ==
  /\ marker \in {Marking(S, "dir") : S \in SUBSET {W, A, C}}
  /\ fault \in MainFaults
  /\ cwd \in {W, A}
  /\ \E r \in {NoPath, Some(<<".">>)}, par, ls, nh, ab \in BOOLEAN,
        hs \in {"plain", "rule"}, ga \in {<<>>, <<"log">>} :
       cli = [root |-> r, absolute_path |-> ab, parent |-> par, max_depth |-> None,
              list |-> ls, heading_style |-> hs, no_heading |-> nh, git_args |-> ga]
  /\ InitProgram

Next ==
  \/ Start \/ WalkTest \/ WalkScan \/ WalkLoop \/ WalkReturn \/ Collect
  \/ DiscoverError \/ Dispatch \/ LoopStart \/ ChildExit \/ LoopEnd

Spec == Init /\ [][Next]_vars

\* ------------------------------------------------------------ properties

StrictPrefix(p, q) == Len(p) < Len(q) /\ SubSeq(q, 1, Len(p)) = p
PrefixOrEqual(p, q) == Len(p) <= Len(q) /\ SubSeq(q, 1, Len(p)) = p

\* Every directory of the file system
AllPlaces ==
  AllDirs \cup {Join(d, ".git") : d \in {e \in AllDirs : GitDirAt(e)}}
          \cup {Join(Join(d, ".git"), "m") : d \in {e \in AllDirs : GitDirAt(e)}}

\* The repository predicate of section 4.1, on a directory of the file system
Qualifies(d) ==
  \/ d \in AllDirs /\ marker[d] \in {"dir", "file"}
  \/ d \notin AllDirs /\ d \in AllPlaces /\ Last(d) = "m"

\* The directories a search rooted at directory r is specified to return
Expected(r) ==
  {d \in AllPlaces :
     /\ PrefixOrEqual(r, d)
     /\ Qualifies(d)
     /\ \A a \in AllPlaces : PrefixOrEqual(r, a) /\ StrictPrefix(a, d) => ~Qualifies(a)
     /\ \A i \in (Len(r) + 1)..Len(d) : d[i] # ".git"
     /\ cli.max_depth.some => Len(d) - Len(r) <= cli.max_depth.val}

\* The directories a search rooted at r is specified to test
ExpectedTested(r) ==
  {d \in AllPlaces :
     /\ PrefixOrEqual(r, d)
     /\ \A a \in AllPlaces : PrefixOrEqual(r, a) /\ StrictPrefix(a, d) => ~Qualifies(a)
     /\ \A i \in (Len(r) + 1)..Len(d) : d[i] # ".git"
     /\ cli.max_depth.some => Len(d) - Len(r) <= cli.max_depth.val}

\* The elements of a set of paths in ascending order
RECURSIVE Ascending(_)
Ascending(S) ==
  IF S = {} THEN <<>>
  ELSE LET least == CHOOSE p \in S : \A q \in S \ {p} : PathLess(p, q)
       IN  <<least>> \o Ascending(S \ {least})

\* The path spelled from root that names directory d below Denote(root)
Spelled(d) == root \o SubSeq(d, Len(Denote(root)) + 1, Len(d))

Events(kind) == SelectSeq(trace, LAMBDA e : e.ev = kind)
NoEvent(kind) == \A k \in 1..Len(trace) : trace[k].ev # kind
DiscoveryFailed == \E e \in ioerrs : e.kind = "io"

\* C3: discover_children never records a directory beneath a recorded one, and
\* visits nothing beneath a recorded directory.
C3_FirstOccurrencePruning ==
  /\ \A p \in Range(out), q \in Range(out) : ~StrictPrefix(p, q)
  /\ \A p \in Range(out), d \in tested : ~StrictPrefix(p, d)
  /\ \A p \in Range(out), k \in 1..Len(stack) : ~StrictPrefix(p, stack[k].dir)

\* W/a is returned although W/a/v qualifies beneath it
C3_Witness ==
  /\ pc = "returned" /\ A \in Range(out)
  /\ Qualifies(V) /\ V \notin tested

\* C4: with max_depth = N every returned path lies at depth <= N, directories
\* at depth N the traversal reaches are tested, none deeper is tested, and for
\* N = 0 the result is the root iff the root qualifies, else empty.
C4_DepthBound ==
  cli.max_depth.some =>
    LET N == cli.max_depth.val IN
    /\ \A p \in Range(out) : Len(p) - Len(root) <= N
    /\ \A d \in tested : Len(d) - Len(root) <= N
    /\ (pc = "returned" /\ ioerrs = {}) =>
         \A d \in ExpectedTested(root) : Len(d) - Len(root) = N => d \in tested
    /\ (pc = "returned" /\ N = 0) =>
         out = IF Qualifies(root) THEN <<root>> ELSE <<>>

\* --max-depth 1 in the workspace of section 8: W/a found, W/b/c not
C4_Witness ==
  /\ pc = "returned" /\ cli.max_depth = Some(1)
  /\ out = <<A>> /\ B \in tested
  /\ Qualifies(C) /\ C \notin tested

\* C5: when the traversal meets no I/O error, discover_children returns, in
\* ascending order, exactly the qualifying directories with no qualifying
\* directory above them in the search, no component .git below the root, and
\* depth within the bound, whatever order read_dir yields entries in.
C5_DiscoverExact ==
  (pc = "returned" /\ ioerrs = {}) => out = Ascending(Expected(root))

\* the workspace of section 8: repositories at W/a, W/a/v and W/b/c
C5_Witness ==
  /\ pc = "returned" /\ ~cli.max_depth.some /\ ioerrs = {}
  /\ Qualifies(A) /\ Qualifies(V) /\ Qualifies(C)
  /\ out = <<A, C>>

C2_SortedUnique ==
  pc = "resolved" =>
    \A i, j \in 1..Len(repos) :
      i < j => PathLess(repos[i], repos[j]) /\ Denote(repos[i]) # Denote(repos[j])

\* C1: when every launch succeeds, the process ends with the code of the last
\* executed target (1 when it ended without a code), and with 0 when no target
\* was executed.
C1_LastCodeWins ==
  (pc = "exit" /\ NoEvent("spawn_failed") /\ ~DiscoveryFailed) =>
    LET exits == Events("exit")
        last == exits[Len(exits)].code
    IN  exit_code = Some(IF exits = <<>> THEN 0
                         ELSE IF last.some THEN last.val ELSE 1)

\* a failure followed by a success ends in success
C1_Witness ==
  /\ pc = "exit" /\ Len(Events("exit")) = 2
  /\ Events("exit")[1].code = Some(3)
  /\ Events("exit")[2].code = Some(0)
  /\ exit_code = Some(0)

\* C6: a permission-denied open is skipped, and any other I/O error met by the
\* traversal ends the run before any command, with a failure status.
C6_OtherErrorsAbort ==
  (\E e \in ioerrs : e.kind # "perm") =>
    /\ NoEvent("start")
    /\ pc = "exit" => (exit_code.some /\ exit_code.val # 0)

\* The order of the events of the loop; ruled says when a rule follows an exit
\* before the next target begins.
Sequential(ruled) ==
  ~cli.list =>
    LET starts == Events("start") IN
    /\ Len(starts) <= Len(repos)
    /\ \A i \in 1..Len(starts) : starts[i].repo = repos[i]
    /\ (pc = "exit" /\ NoEvent("spawn_failed") /\ ~DiscoveryFailed)
         => Len(starts) = Len(repos)
    /\ \A k \in 1..Len(trace) :
         /\ trace[k].ev = "start" =>
              /\ \/ k = Len(trace) /\ pc = "running"
                 \/ k < Len(trace) /\ trace[k + 1].ev = "exit"
                      /\ trace[k + 1].repo = trace[k].repo
              /\ IF print_headings
                   THEN k > 1 /\ trace[k - 1].ev = "heading"
                          /\ trace[k - 1].repo = trace[k].repo
                   ELSE k = 1 \/ trace[k - 1].ev = "exit"
         /\ trace[k].ev = "exit" =>
              /\ k > 1 /\ trace[k - 1].ev = "start"
              /\ (ruled /\ k < Len(trace)) => trace[k + 1].ev = "rule"
         /\ trace[k].ev = "rule" => (k > 1 /\ trace[k - 1].ev = "exit")
         /\ trace[k].ev = "heading" =>
              k = 1 \/ trace[k - 1].ev = (IF ruled THEN "rule" ELSE "exit")

\* C7 as stated: each target's command runs once, in order, one at a time, its
\* rule printed whenever headings are on, and no exit code stops the loop.
C7_AsStated == Sequential(print_headings)

\* C7, amended: the rule follows when headings are on and the style is rule.
C7_Sequential == Sequential(print_headings /\ cli.heading_style = "rule")

\* two targets with headings and rules, the first failing
C7_Witness ==
  /\ pc = "exit" /\ print_headings /\ cli.heading_style = "rule"
  /\ Len(Events("start")) = 2 /\ Len(Events("rule")) = 2
  /\ Events("exit")[1].code = Some(1)

\* C8: a launch failure is the last event: the process ends at once with a
\* non-zero status, and the commands of the earlier targets have run.
C8_SpawnFailureAborts ==
  \A k \in 1..Len(trace) :
    trace[k].ev = "spawn_failed" =>
      /\ k = Len(trace) /\ pc = "exit"
      /\ exit_code.some /\ exit_code.val # 0
      /\ trace[k].repo = repos[idx + 1]
      /\ Len(Events("start")) = idx /\ Len(Events("exit")) = idx
      /\ \A i \in 1..idx : Events("start")[i].repo = repos[i]

\* the second launch fails after the first target succeeded
C8_Witness ==
  /\ pc = "exit" /\ trace # <<>> /\ trace[Len(trace)].ev = "spawn_failed"
  /\ idx = 1 /\ last_code = 0 /\ Len(repos) > 2

\* C9: --list prints one label per target, in target order, starts no command
\* and exits 0, whatever arguments and heading flags were given.
C9_ListOnly ==
  cli.list =>
    /\ NoEvent("start") /\ NoEvent("spawn_failed")
    /\ (pc = "exit" /\ ~DiscoveryFailed) =>
         /\ Len(trace) = Len(repos)
         /\ \A i \in 1..Len(repos) :
              /\ trace[i].ev = "label" /\ trace[i].repo = repos[i]
              /\ trace[i].text = heading_for(repos[i], root, cli.absolute_path)
              /\ i > 1 => PathLess(repos[i - 1], repos[i])
         /\ exit_code = Some(0)

\* --list --no-heading with a command: the labels are still printed
C9_Witness ==
  /\ cli.list /\ pc = "exit" /\ cli.no_heading /\ cli.git_args # <<>>
  /\ Len(repos) >= 2 /\ Len(trace) = Len(repos)

====
